---- MODULE Spec2Model ----
(***************************************************************************)
(* Lifecycle of the Proxy of internal/proxy/proxy.go: construction         *)
(* (CreateProxy), callback registration, startProxy, the grpcLoop          *)
(* goroutine it launches, and Close/stopProxyLoop.                         *)
(*                                                                         *)
(* One caller thread invokes the exported methods one after the other;     *)
(* every statement of startProxy, stopProxyLoop and Close is one step of   *)
(* that thread.  Each grpcLoop goroutine runs concurrently with it.  The   *)
(* field p.grpcServer is written by the goroutine and read by the caller   *)
(* without synchronisation, so the read in stopProxyLoop may observe nil   *)
(* or any server already stored there.  log.Fatalf and an unrecovered      *)
(* panic terminate the process (alive = FALSE).                            *)
(***************************************************************************)
EXTENDS Naturals, Integers, Sequences, FiniteSets, TLC

\* ---------------------------------------------------------------- bounds
MaxStarts == 2
MaxCallbacks == 2
MaxInflight == 1
MaxTimestamp == 5
MaxBatch == 2
MaxTasks == 2
MaxActive == 2

Goroutines == 1..MaxStarts

\* ------------------------------------------------------------ components
Streams == {"manipulationMsgStream", "queryMsgStream"}
Allocators == {"idAllocator", "tsoAllocator", "segAssigner"}
Components == Streams \cup {"sched"} \cup Allocators

\* Everything CreateProxy and startProxy hand a context to.
CtxHolders == Components \cup {"metaCache"}

\* TaskScheduler: task kinds, the collections tasks target, task names.
Kinds == {"DDL", "Manipulation", "Query"}
Collections == {"X", "Y"}
Tasks == 1..MaxTasks
NoTask == [kind |-> "none", coll |-> "none", state |-> "none"]

VARIABLES
    alive,           \* the process has not been terminated
    proxy,           \* "none" | "created" | "error": outcome of CreateProxy
    startCallbacks,  \* p.startCallbacks
    closeCallbacks,  \* p.closeCallbacks
    callerOp,        \* "idle" | "Start" | "Close": the method being executed
    callerIdx,       \* index of the next statement of that method
    cbIdx,           \* number of callbacks the running loop has invoked
    result,          \* per method: "none" | "running" | "ok" | "err"
    starts,          \* number of Start calls made
    err,             \* startProxy's err: connectMaster returned an error
    startTrace,      \* statements completed by the latest Start call
    closeTrace,      \* statements completed by the Close call
    invoked,         \* log of callback invocations
    masterConn,      \* p.masterConn # nil
    metaCacheWarmed, \* initGlobalMetaCache has been called
    compStarted,     \* components whose Start() has been called
    compClosed,      \* components whose Close() has been called
    ctxCancelled,    \* proxyLoopCancel() has been called
    wg,              \* counter of p.proxyLoopWg
    launched,        \* number of grpcLoop goroutines launched
    gpc,             \* position of each grpcLoop goroutine
    grpcServer,      \* p.grpcServer: 0 is nil, g the server made by goroutine g
    srv,             \* state of each grpc.Server
    port,            \* goroutine whose listener holds :5053, 0 when free
    inflight,        \* per server: requests being handled that will finish
    hung,            \* per server: requests being handled that never finish
    stopping,        \* server on which GracefulStop is blocked, 0 if none
    ctxOf,           \* per component: the context it was constructed with
    authorityTs,     \* authority: first timestamp not yet leased to anyone
    tsoRange,        \* TimestampAllocator: the cached AllocationRange
    issued,          \* timestamps issued by the allocator, in issuance order
    task,            \* TaskScheduler: per task its kind, collection and state
    token            \* per collection: the tasks holding its exclusion token

vars == <<alive, proxy, startCallbacks, closeCallbacks, callerOp, callerIdx,
          cbIdx, result, starts, err, startTrace, closeTrace, invoked,
          masterConn, metaCacheWarmed, compStarted, compClosed, ctxCancelled, wg,
          launched, gpc, grpcServer, srv, port, inflight, hung, stopping,
          ctxOf, authorityTs, tsoRange, issued, task, token>>

\* The state of the Proxy's lifecycle, of the TimestampAllocator and of the
\* TaskScheduler.
lifeVars == <<alive, proxy, startCallbacks, closeCallbacks, callerOp,
              callerIdx, cbIdx, result, starts, err, startTrace, closeTrace,
              invoked, masterConn, metaCacheWarmed, compStarted, compClosed,
              ctxCancelled, wg, launched, gpc, grpcServer, srv, port,
              inflight, hung, stopping, ctxOf>>
tsoVars == <<authorityTs, tsoRange, issued>>
schedVars == <<task, token>>
extVars == <<tsoVars, schedVars>>

callerVars == <<callerOp, callerIdx, result>>
cbVars == <<startCallbacks, closeCallbacks>>
compVars == <<masterConn, metaCacheWarmed, compStarted, compClosed, ctxCancelled>>
loopVars == <<launched, gpc, grpcServer, srv, port>>
reqVars == <<inflight, hung>>

Range(s) == {s[i] : i \in 1..Len(s)}

\* Position of step x in trace t, 0 when absent.
Pos(t, x) == IF x \in Range(t) THEN CHOOSE i \in 1..Len(t) : t[i] = x ELSE 0

\* -------------------------------------------------------- program texts
\* Variants of the program texts with two statements out of place.
startProxyStepsEndpointEarly ==
    <<"connectMaster", "initGlobalMetaCache",
      "manipulationMsgStream", "queryMsgStream", "sched",
      "wgAdd", "grpcLoop",
      "idAllocator", "tsoAllocator", "segAssigner", "startCallbacks">>

startProxyStepsSchedFirst ==
    <<"connectMaster", "initGlobalMetaCache",
      "sched", "manipulationMsgStream", "queryMsgStream",
      "idAllocator", "tsoAllocator", "segAssigner",
      "startCallbacks", "wgAdd", "grpcLoop">>

stopProxyLoopStepsSchedEarly ==
    <<"proxyLoopCancel", "grpcServer",
      "tsoAllocator", "idAllocator", "sched", "segAssigner",
      "manipulationMsgStream", "queryMsgStream", "wgWait">>

startProxyStepsCallbacksLast ==
    <<"connectMaster", "initGlobalMetaCache",
      "manipulationMsgStream", "queryMsgStream", "sched",
      "idAllocator", "tsoAllocator", "segAssigner",
      "wgAdd", "grpcLoop", "startCallbacks">>

\* The statements of startProxy in program order.
startProxySteps ==
    <<"connectMaster", "initGlobalMetaCache",
      "manipulationMsgStream", "queryMsgStream", "sched",
      "idAllocator", "tsoAllocator", "segAssigner",
      "startCallbacks", "wgAdd", "grpcLoop">>

stopProxyLoopStepsCancelLate ==
    <<"grpcServer", "tsoAllocator", "proxyLoopCancel",
      "idAllocator", "segAssigner",
      "sched", "manipulationMsgStream", "queryMsgStream", "wgWait">>

\* The statements of stopProxyLoop in program order.
stopProxyLoopSteps ==
    <<"proxyLoopCancel", "grpcServer",
      "tsoAllocator", "idAllocator", "segAssigner",
      "sched", "manipulationMsgStream", "queryMsgStream", "wgWait">>

\* Variant of Close that runs the close callbacks before stopProxyLoop.
CloseStepsCallbacksFirst == <<"closeCallbacks">> \o stopProxyLoopSteps

\* Close: stopProxyLoop, then the close callbacks.
CloseSteps == stopProxyLoopSteps \o <<"closeCallbacks">>

\* Variant of startProxy that drops connectMaster's error and goes on.
connectMasterReturnIgnoresError(ok) == "continue"

\* startProxy after connectMaster returned: a non-nil error is returned
\* at once, otherwise the method goes on.
connectMasterReturn(ok) == IF ok THEN "continue" ELSE "return"

CurSteps == IF callerOp = "Start" THEN startProxySteps
            ELSE IF callerOp = "Close" THEN CloseSteps ELSE <<>>

Step == IF callerOp # "idle" /\ callerIdx \in 1..Len(CurSteps)
        THEN CurSteps[callerIdx] ELSE "none"

Return(r) ==
    /\ callerOp' = "idle"
    /\ callerIdx' = 0
    /\ result' = [result EXCEPT ![callerOp] = r]

Advance ==
    IF callerIdx = Len(CurSteps)
    THEN Return("ok")
    ELSE /\ callerIdx' = callerIdx + 1
         /\ UNCHANGED <<callerOp, result>>

Record ==
    IF callerOp = "Start"
    THEN startTrace' = Append(startTrace, Step) /\ UNCHANGED closeTrace
    ELSE closeTrace' = Append(closeTrace, Step) /\ UNCHANGED startTrace

Running == alive /\ proxy = "created"

\* ------------------------------------------------------------------ Init
Init ==
    /\ alive = TRUE
    /\ proxy = "none"
    /\ startCallbacks = <<>>
    /\ closeCallbacks = <<>>
    /\ callerOp = "idle"
    /\ callerIdx = 0
    /\ cbIdx = 0
    /\ result = [Start |-> "none", Close |-> "none"]
    /\ starts = 0
    /\ err = FALSE
    /\ startTrace = <<>>
    /\ closeTrace = <<>>
    /\ invoked = <<>>
    /\ masterConn = FALSE
    /\ metaCacheWarmed = FALSE
    /\ compStarted = {}
    /\ compClosed = {}
    /\ ctxCancelled = FALSE
    /\ wg = 0
    /\ launched = 0
    /\ gpc = [g \in Goroutines |-> "unlaunched"]
    /\ grpcServer = 0
    /\ srv = [g \in Goroutines |-> "none"]
    /\ port = 0
    /\ inflight = [g \in Goroutines |-> 0]
    /\ hung = [g \in Goroutines |-> 0]
    /\ stopping = 0
    /\ ctxOf = [c \in CtxHolders |-> "none"]
    /\ authorityTs = 0
    /\ tsoRange = [start |-> 0, end |-> 0]
    /\ issued = <<>>
    /\ task = [t \in Tasks |-> NoTask]
    /\ token = [c \in Collections |-> {}]

\* ----------------------------------------------------------- CreateProxy
\* failed names the constructor that returns an error, "none" if all succeed.
CreateProxyOutcome(failed) ==
    IF failed = "none" THEN "created"
    ELSE IF failed = "segAssigner" THEN "panic"
    ELSE "error"

\* The constructors CreateProxy calls, in program order.
CreateOrder ==
    <<"manipulationMsgStream", "queryMsgStream",
      "idAllocator", "tsoAllocator", "segAssigner", "sched">>

\* The components constructed when constructor failed returns an error.
Constructed(failed) ==
    IF failed = "none" THEN Components
    ELSE {CreateOrder[i] : i \in 1..(Pos(CreateOrder, failed) - 1)}

\* The context handed to a constructor and to initGlobalMetaCache:
\* p.proxyLoopCtx, which is ctx1 of context.WithCancel(ctx).
componentCtx(c) == "proxyLoopCtx"

CreateProxy ==
    /\ alive /\ proxy = "none"
    /\ \E failed \in {"none", "idAllocator", "tsoAllocator", "segAssigner", "sched"} :
          LET out == CreateProxyOutcome(failed) IN
          /\ proxy' = IF out = "panic" THEN "none" ELSE out
          /\ alive' = (out # "panic")
          /\ ctxOf' = [c \in CtxHolders |->
                          IF c \in Constructed(failed)
                          THEN componentCtx(c) ELSE "none"]
    /\ UNCHANGED extVars
    /\ UNCHANGED <<cbVars, callerVars, cbIdx, starts, err, startTrace, closeTrace,
                   invoked, compVars, wg, loopVars, reqVars, stopping>>

\* ------------------------------------------------- callback registration
\* Every registered callback is a function value of its own; it is named by
\* the ordinal of its registration.
Registered == Len(startCallbacks) + Len(closeCallbacks)

\* The variadic argument list of a call that passes n fresh callbacks.
CallbackArgs(n) == [i \in 1..n |-> Registered + i]

\* Variant of AddStartCallback that puts the new callbacks in front.
AddStartCallbackPrepends ==
    /\ Running /\ callerOp = "idle"
    /\ \E n \in 1..MaxCallbacks :
          /\ Registered + n <= MaxCallbacks
          /\ startCallbacks' = CallbackArgs(n) \o startCallbacks
    /\ UNCHANGED <<ctxOf, extVars>>
    /\ UNCHANGED <<alive, proxy, closeCallbacks, callerVars, cbIdx, starts, err,
                   startTrace, closeTrace, invoked, compVars, wg, loopVars,
                   reqVars, stopping>>

\* p.startCallbacks = append(p.startCallbacks, callbacks...)
AddStartCallback ==
    /\ Running /\ callerOp = "idle"
    /\ \E n \in 1..MaxCallbacks :
          /\ Registered + n <= MaxCallbacks
          /\ startCallbacks' = startCallbacks \o CallbackArgs(n)
    /\ UNCHANGED <<ctxOf, extVars>>
    /\ UNCHANGED <<alive, proxy, closeCallbacks, callerVars, cbIdx, starts, err,
                   startTrace, closeTrace, invoked, compVars, wg, loopVars,
                   reqVars, stopping>>

\* p.closeCallbacks = append(p.closeCallbacks, callbacks...)
AddCloseCallback ==
    /\ Running /\ callerOp = "idle"
    /\ \E n \in 1..MaxCallbacks :
          /\ Registered + n <= MaxCallbacks
          /\ closeCallbacks' = closeCallbacks \o CallbackArgs(n)
    /\ UNCHANGED <<ctxOf, extVars>>
    /\ UNCHANGED <<alive, proxy, startCallbacks, callerVars, cbIdx, starts, err,
                   startTrace, closeTrace, invoked, compVars, wg, loopVars,
                   reqVars, stopping>>

\* ----------------------------------------------------- Start / startProxy
\* Start(): the caller enters startProxy.
StartCall ==
    /\ Running /\ callerOp = "idle"
    /\ starts < MaxStarts
    /\ starts' = starts + 1
    /\ err' = FALSE
    /\ callerOp' = "Start"
    /\ callerIdx' = 1
    /\ result' = [result EXCEPT !["Start"] = "running"]
    /\ startTrace' = <<>>
    /\ UNCHANGED <<ctxOf, extVars>>
    /\ UNCHANGED <<alive, proxy, cbVars, cbIdx, closeTrace, invoked, compVars,
                   wg, loopVars, reqVars, stopping>>

\* err := p.connectMaster(); if err != nil { return err }
connectMaster ==
    /\ Running /\ callerOp = "Start" /\ Step = "connectMaster"
    /\ \E ok \in BOOLEAN :
          /\ err' = ~ok
          /\ IF connectMasterReturn(ok) = "return"
             THEN /\ Return("err")
                  /\ UNCHANGED <<masterConn, startTrace>>
             ELSE /\ masterConn' = (masterConn \/ ok)
                  /\ startTrace' = IF ok THEN Append(startTrace, Step)
                                         ELSE startTrace
                  /\ Advance
    /\ UNCHANGED <<ctxOf, extVars>>
    /\ UNCHANGED <<alive, proxy, cbVars, cbIdx, starts, closeTrace, invoked,
                   metaCacheWarmed, compStarted, compClosed, ctxCancelled,
                   wg, loopVars, reqVars, stopping>>

\* initGlobalMetaCache(p.proxyLoopCtx, p.masterClient, ...)
initGlobalMetaCache ==
    /\ Running /\ callerOp = "Start" /\ Step = "initGlobalMetaCache"
    /\ metaCacheWarmed' = TRUE
    /\ ctxOf' = [ctxOf EXCEPT !["metaCache"] = componentCtx("metaCache")]
    /\ Record
    /\ Advance
    /\ UNCHANGED extVars
    /\ UNCHANGED <<alive, proxy, cbVars, cbIdx, starts, err, invoked, masterConn,
                   compStarted, compClosed, ctxCancelled, wg, loopVars,
                   reqVars, stopping>>

\* p.<component>.Start()
StartComponent ==
    /\ Running /\ callerOp = "Start" /\ Step \in Components
    /\ compStarted' = compStarted \cup {Step}
    /\ Record
    /\ Advance
    /\ UNCHANGED <<ctxOf, extVars>>
    /\ UNCHANGED <<alive, proxy, cbVars, cbIdx, starts, err, invoked, masterConn,
                   metaCacheWarmed, compClosed, ctxCancelled, wg, loopVars,
                   reqVars, stopping>>

\* for _, cb := range p.startCallbacks { cb() }
RunStartCallbacks ==
    /\ Running /\ callerOp = "Start" /\ Step = "startCallbacks"
    /\ IF cbIdx < Len(startCallbacks)
       THEN /\ invoked' = Append(invoked, [by |-> "Start", list |-> "start",
                                           cb |-> startCallbacks[cbIdx + 1]])
            /\ cbIdx' = cbIdx + 1
            /\ UNCHANGED <<callerVars, startTrace, closeTrace>>
       ELSE /\ cbIdx' = 0
            /\ Record
            /\ Advance
            /\ UNCHANGED invoked
    /\ UNCHANGED <<ctxOf, extVars>>
    /\ UNCHANGED <<alive, proxy, cbVars, starts, err, compVars, wg, loopVars,
                   reqVars, stopping>>

\* p.proxyLoopWg.Add(1)
WgAdd ==
    /\ Running /\ callerOp = "Start" /\ Step = "wgAdd"
    /\ wg' = wg + 1
    /\ Record
    /\ Advance
    /\ UNCHANGED <<ctxOf, extVars>>
    /\ UNCHANGED <<alive, proxy, cbVars, cbIdx, starts, err, invoked, compVars,
                   loopVars, reqVars, stopping>>

\* go p.grpcLoop()
GoGrpcLoop ==
    /\ Running /\ callerOp = "Start" /\ Step = "grpcLoop"
    /\ launched' = launched + 1
    /\ gpc' = [gpc EXCEPT ![launched + 1] = "listen"]
    /\ Record
    /\ Advance
    /\ UNCHANGED <<ctxOf, extVars>>
    /\ UNCHANGED <<alive, proxy, cbVars, cbIdx, starts, err, invoked, compVars, wg,
                   grpcServer, srv, port, reqVars, stopping>>

\* ------------------------------------------------- Close / stopProxyLoop
\* Close(): the caller enters stopProxyLoop.  A Proxy is closed once.
CloseCall ==
    /\ Running /\ callerOp = "idle"
    /\ result["Close"] = "none"
    /\ callerOp' = "Close"
    /\ callerIdx' = 1
    /\ result' = [result EXCEPT !["Close"] = "running"]
    /\ closeTrace' = <<>>
    /\ UNCHANGED <<ctxOf, extVars>>
    /\ UNCHANGED <<alive, proxy, cbVars, cbIdx, starts, err, startTrace, invoked,
                   compVars, wg, loopVars, reqVars, stopping>>

\* p.proxyLoopCancel()
proxyLoopCancel ==
    /\ Running /\ callerOp = "Close" /\ Step = "proxyLoopCancel"
    /\ ctxCancelled' = TRUE
    /\ Record
    /\ Advance
    /\ UNCHANGED <<ctxOf, extVars>>
    /\ UNCHANGED <<alive, proxy, cbVars, cbIdx, starts, err, invoked, masterConn,
                   metaCacheWarmed, compStarted, compClosed, wg, loopVars,
                   reqVars, stopping>>

\* The values the unsynchronised read of p.grpcServer may yield: nil or a
\* server some goroutine has stored.
GrpcServerReads == {0} \cup {g \in Goroutines : srv[g] # "none"}

\* if p.grpcServer != nil { p.grpcServer.GracefulStop() }: the read, and
\* the first half of GracefulStop, which closes the listeners so that no
\* new connection or request is accepted.
GracefulStopBegin ==
    /\ Running /\ callerOp = "Close" /\ Step = "grpcServer" /\ stopping = 0
    /\ \E s \in GrpcServerReads :
          IF s = 0
          THEN /\ Advance
               /\ UNCHANGED <<srv, port, stopping>>
          ELSE /\ stopping' = s
               /\ srv' = [srv EXCEPT ![s] =
                             IF srv[s] = "serving" THEN "draining" ELSE "stopped"]
               /\ port' = IF srv[s] = "serving" /\ port = s THEN 0 ELSE port
               /\ UNCHANGED callerVars
    /\ UNCHANGED <<ctxOf, extVars>>
    /\ UNCHANGED <<alive, proxy, cbVars, cbIdx, starts, err, startTrace, closeTrace,
                   invoked, compVars, wg, launched, gpc, grpcServer, reqVars>>

\* The second half of GracefulStop: it blocks until every pending request
\* has finished, then returns.
GracefulStopWait ==
    /\ Running /\ callerOp = "Close" /\ Step = "grpcServer" /\ stopping # 0
    /\ inflight[stopping] + hung[stopping] = 0
    /\ srv' = [srv EXCEPT ![stopping] = "stopped"]
    /\ stopping' = 0
    /\ Record
    /\ Advance
    /\ UNCHANGED <<ctxOf, extVars>>
    /\ UNCHANGED <<alive, proxy, cbVars, cbIdx, starts, err, invoked, compVars, wg,
                   launched, gpc, grpcServer, port, reqVars>>

\* p.<component>.Close()
CloseComponent ==
    /\ Running /\ callerOp = "Close" /\ Step \in Components
    /\ compClosed' = compClosed \cup {Step}
    /\ Record
    /\ Advance
    /\ UNCHANGED <<ctxOf, extVars>>
    /\ UNCHANGED <<alive, proxy, cbVars, cbIdx, starts, err, invoked, masterConn,
                   metaCacheWarmed, compStarted, ctxCancelled, wg, loopVars,
                   reqVars, stopping>>

\* p.proxyLoopWg.Wait()
WgWait ==
    /\ Running /\ callerOp = "Close" /\ Step = "wgWait"
    /\ wg = 0
    /\ Record
    /\ Advance
    /\ UNCHANGED <<ctxOf, extVars>>
    /\ UNCHANGED <<alive, proxy, cbVars, cbIdx, starts, err, invoked, compVars, wg,
                   loopVars, reqVars, stopping>>

\* for _, cb := range p.closeCallbacks { cb() }
RunCloseCallbacks ==
    /\ Running /\ callerOp = "Close" /\ Step = "closeCallbacks"
    /\ IF cbIdx < Len(closeCallbacks)
       THEN /\ invoked' = Append(invoked, [by |-> "Close", list |-> "close",
                                           cb |-> closeCallbacks[cbIdx + 1]])
            /\ cbIdx' = cbIdx + 1
            /\ UNCHANGED <<callerVars, startTrace, closeTrace>>
       ELSE /\ cbIdx' = 0
            /\ Record
            /\ Advance
            /\ UNCHANGED invoked
    /\ UNCHANGED <<ctxOf, extVars>>
    /\ UNCHANGED <<alive, proxy, cbVars, starts, err, compVars, wg, loopVars,
                   reqVars, stopping>>

\* ------------------------------------------------------ grpcLoop goroutine
\* lis, err := net.Listen("tcp", ":5053"); a failure is fatal (log.Fatalf).
\* The bind fails when the port is taken; it may also fail for reasons
\* outside the process.
ListenOutcomes == IF port = 0 THEN BOOLEAN ELSE {FALSE}

\* Variant of log.Fatalf that only logs: the goroutine stays where it failed
\* and the process lives on.
logFatalfReturns(g, at) ==
    /\ gpc' = [gpc EXCEPT ![g] = at]
    /\ UNCHANGED alive

\* log.Fatalf(...) in goroutine g: the message is logged and os.Exit(1)
\* terminates the process; no deferred call runs.
logFatalf(g, at) ==
    /\ gpc' = [gpc EXCEPT ![g] = at]
    /\ alive' = FALSE

Listen(g) ==
    /\ Running /\ gpc[g] = "listen"
    /\ \E ok \in ListenOutcomes :
          IF ok
          THEN /\ port' = g
               /\ gpc' = [gpc EXCEPT ![g] = "newServer"]
               /\ UNCHANGED alive
          ELSE /\ logFatalf(g, "listenFailed")
               /\ UNCHANGED port
    /\ UNCHANGED <<ctxOf, extVars>>
    /\ UNCHANGED <<proxy, cbVars, callerVars, cbIdx, starts, err, startTrace,
                   closeTrace, invoked, compVars, wg, launched, grpcServer,
                   srv, reqVars, stopping>>

\* p.grpcServer = grpc.NewServer(); RegisterMilvusServiceServer(...)
NewServer(g) ==
    /\ Running /\ gpc[g] = "newServer"
    /\ grpcServer' = g
    /\ srv' = [srv EXCEPT ![g] = "new"]
    /\ gpc' = [gpc EXCEPT ![g] = "serve"]
    /\ UNCHANGED <<ctxOf, extVars>>
    /\ UNCHANGED <<alive, proxy, cbVars, callerVars, cbIdx, starts, err, startTrace,
                   closeTrace, invoked, compVars, wg, launched, port, reqVars,
                   stopping>>

\* p.grpcServer.Serve(lis) is entered.  On a server that GracefulStop has
\* already stopped, Serve closes lis and returns ErrServerStopped, which
\* grpcLoop treats as fatal; otherwise the endpoint accepts requests.
Serve(g) ==
    /\ Running /\ gpc[g] = "serve"
    /\ IF srv[g] = "stopped"
       THEN /\ logFatalf(g, "serveFailed")
            /\ port' = IF port = g THEN 0 ELSE port
            /\ UNCHANGED srv
       ELSE /\ srv' = [srv EXCEPT ![g] = "serving"]
            /\ gpc' = [gpc EXCEPT ![g] = "serving"]
            /\ UNCHANGED <<alive, port>>
    /\ UNCHANGED <<ctxOf, extVars>>
    /\ UNCHANGED <<proxy, cbVars, callerVars, cbIdx, starts, err, startTrace,
                   closeTrace, invoked, compVars, wg, launched, grpcServer,
                   reqVars, stopping>>

\* Serve returns nil once GracefulStop has closed the listener; grpcLoop
\* returns and the deferred p.proxyLoopWg.Done() runs.
ServeReturn(g) ==
    /\ Running /\ gpc[g] = "serving"
    /\ srv[g] \in {"draining", "stopped"}
    /\ gpc' = [gpc EXCEPT ![g] = "done"]
    /\ wg' = wg - 1
    /\ UNCHANGED <<ctxOf, extVars>>
    /\ UNCHANGED <<alive, proxy, cbVars, callerVars, cbIdx, starts, err, startTrace,
                   closeTrace, invoked, compVars, launched, grpcServer, srv,
                   port, reqVars, stopping>>

\* Serve returns a non-nil error (Accept failed fatally): log.Fatalf.
ServeFail(g) ==
    /\ Running /\ gpc[g] = "serving"
    /\ srv[g] = "serving"
    /\ logFatalf(g, "serveFailed")
    /\ UNCHANGED <<ctxOf, extVars>>
    /\ UNCHANGED <<proxy, cbVars, callerVars, cbIdx, starts, err, startTrace,
                   closeTrace, invoked, compVars, wg, launched, grpcServer,
                   srv, port, reqVars, stopping>>

\* --------------------------------------------------------- client requests
\* The endpoint accepts a client request; never tells whether the request
\* is one that never reaches a terminal state.
ClientRequest(g) ==
    /\ Running /\ srv[g] = "serving"
    /\ inflight[g] + hung[g] < MaxInflight
    /\ \E never \in BOOLEAN :
          IF never
          THEN hung' = [hung EXCEPT ![g] = @ + 1] /\ UNCHANGED inflight
          ELSE inflight' = [inflight EXCEPT ![g] = @ + 1] /\ UNCHANGED hung
    /\ UNCHANGED <<ctxOf, extVars>>
    /\ UNCHANGED <<alive, proxy, cbVars, callerVars, cbIdx, starts, err, startTrace,
                   closeTrace, invoked, compVars, wg, loopVars, stopping>>

\* A request being handled reaches a terminal state and is answered.
FinishRequest(g) ==
    /\ Running /\ inflight[g] > 0
    /\ inflight' = [inflight EXCEPT ![g] = @ - 1]
    /\ UNCHANGED <<ctxOf, extVars>>
    /\ UNCHANGED <<alive, proxy, cbVars, callerVars, cbIdx, starts, err, startTrace,
                   closeTrace, invoked, compVars, wg, loopVars, hung, stopping>>

\* ------------------------------------------------------------ specification
startProxy ==
    \/ StartCall
    \/ connectMaster
    \/ initGlobalMetaCache
    \/ StartComponent
    \/ RunStartCallbacks
    \/ WgAdd
    \/ GoGrpcLoop

stopProxyLoop ==
    \/ proxyLoopCancel
    \/ GracefulStopBegin
    \/ GracefulStopWait
    \/ CloseComponent
    \/ WgWait

Close ==
    \/ CloseCall
    \/ stopProxyLoop
    \/ RunCloseCallbacks

grpcLoop(g) ==
    \/ Listen(g)
    \/ NewServer(g)
    \/ Serve(g)
    \/ ServeReturn(g)
    \/ ServeFail(g)

Next ==
    \/ CreateProxy
    \/ AddStartCallback
    \/ AddCloseCallback
    \/ startProxy
    \/ Close
    \/ \E g \in Goroutines : grpcLoop(g)
    \/ \E g \in Goroutines : ClientRequest(g)
    \/ \E g \in Goroutines : FinishRequest(g)

Spec == Init /\ [][Next]_vars

\* Steps the Go scheduler runs whenever they can run: a method that has been
\* entered runs on, a launched goroutine runs on, and a request that can
\* finish does finish.  Calls, registrations, arriving requests and fatal
\* Accept errors are left to the environment.
CallerStep ==
    \/ connectMaster \/ initGlobalMetaCache \/ StartComponent
    \/ RunStartCallbacks \/ WgAdd \/ GoGrpcLoop
    \/ stopProxyLoop \/ RunCloseCallbacks

LoopStep(g) == Listen(g) \/ NewServer(g) \/ Serve(g) \/ ServeReturn(g)

LiveSpec ==
    /\ Spec
    /\ WF_vars(CallerStep)
    /\ \A g \in Goroutines : WF_vars(LoopStep(g))
    /\ \A g \in Goroutines : WF_vars(FinishRequest(g))

\* ===================================================== TimestampAllocator
\* The allocator leases ranges of timestamps from the authority and serves
\* Allocate from the cached range; one mutex makes each operation atomic.

\* Authority RPC AllocateTimestamps(count): the range it hands out.
AuthorityLease(count) ==
    [start |-> authorityTs, end |-> authorityTs + count]

\* Variant of consume that hands out values without advancing start.
consumeKeepsStart(range, n) == range

\* The cached range after n values have been handed out.
consume(range, n) == [range EXCEPT !.start = @ + n]

\* The n consecutive values Allocate(n) returns from range.
Values(range, n) == [i \in 1..n |-> range.start + i - 1]

Remaining == tsoRange.end - tsoRange.start

\* The background routine requests the next batch; it replaces the cached
\* range, whose unused values are never handed out.
TsoRefill ==
    /\ \E b \in 1..MaxBatch :
          /\ authorityTs + b <= MaxTimestamp
          /\ tsoRange' = AuthorityLease(b)
          /\ authorityTs' = authorityTs + b
    /\ UNCHANGED <<issued, lifeVars, schedVars>>

\* Allocate(n) served from the cached range.
TsoAllocate ==
    /\ \E n \in 1..MaxBatch :
          /\ Remaining >= n
          /\ issued' = issued \o Values(tsoRange, n)
          /\ tsoRange' = consume(tsoRange, n)
    /\ UNCHANGED <<authorityTs, lifeVars, schedVars>>

\* Allocate(n) on a cache that holds fewer than n values: it leases a batch
\* of at least n synchronously and is served from it.
TsoAllocateBlocking ==
    /\ \E n \in 1..MaxBatch : \E b \in n..MaxBatch :
          /\ Remaining < n
          /\ authorityTs + b <= MaxTimestamp
          /\ issued' = issued \o Values(AuthorityLease(b), n)
          /\ tsoRange' = consume(AuthorityLease(b), n)
          /\ authorityTs' = authorityTs + b
    /\ UNCHANGED <<lifeVars, schedVars>>

\* Another client of the authority leases a batch.
OtherClientLease ==
    /\ \E b \in 1..MaxBatch :
          /\ authorityTs + b <= MaxTimestamp
          /\ authorityTs' = authorityTs + b
    /\ UNCHANGED <<tsoRange, issued, lifeVars, schedVars>>

\* The allocator restarts: the cached range is lost, the authority keeps
\* its high-water mark.
TsoRestart ==
    /\ Remaining > 0
    /\ tsoRange' = [start |-> tsoRange.end, end |-> tsoRange.end]
    /\ UNCHANGED <<authorityTs, issued, lifeVars, schedVars>>

TsoNext ==
    \/ TsoRefill
    \/ TsoAllocate
    \/ TsoAllocateBlocking
    \/ OtherClientLease
    \/ TsoRestart

TsoSpec == Init /\ [][TsoNext]_vars

\* ========================================================== TaskScheduler
\* Each task goes Created -> PreExecuted -> Executing -> Executed, or to
\* Failed from any non-terminal state.  Worker loops of the three queues
\* advance tasks in any interleaving.  The exclusion token of a collection
\* is taken before Execute and released in PostExecute: a DDL task takes
\* it alone, Manipulation and Query tasks share it among themselves.

\* The tasks of a kind that are in Execute.
Active(kind) ==
    {t \in Tasks : task[t].kind = kind /\ task[t].state = "Executing"}

\* Variant in which only DDL tasks look at the token.
CanAcquireOnlyDDLChecks(t) ==
    task[t].kind # "DDL" \/ token[task[t].coll] = {}

\* Whether task t can take the exclusion token of its collection.
CanAcquire(t) ==
    IF task[t].kind = "DDL"
    THEN token[task[t].coll] = {}
    ELSE \A u \in token[task[t].coll] : task[u].kind # "DDL"

\* The token of t's collection after t has given it back.
Released(t) ==
    [c \in Collections |-> token[c] \ {t}]

\* The endpoint creates a task for a client operation.
Submit(t) ==
    /\ task[t] = NoTask
    /\ \E k \in Kinds, c \in Collections :
          task' = [task EXCEPT ![t] = [kind |-> k, coll |-> c,
                                       state |-> "Created"]]
    /\ UNCHANGED <<token, lifeVars, tsoVars>>

\* PreExecute: validation and assignment of the ordering metadata.
PreExecute(t) ==
    /\ task[t].state = "Created"
    /\ task' = [task EXCEPT ![t].state = "PreExecuted"]
    /\ UNCHANGED <<token, lifeVars, tsoVars>>

\* A worker takes the token and begins Execute; a task whose token is
\* unavailable is re-queued and stays PreExecuted.
Execute(t) ==
    /\ task[t].state = "PreExecuted"
    /\ Cardinality(Active(task[t].kind)) < MaxActive
    /\ CanAcquire(t)
    /\ token' = [token EXCEPT ![task[t].coll] = @ \cup {t}]
    /\ task' = [task EXCEPT ![t].state = "Executing"]
    /\ UNCHANGED <<lifeVars, tsoVars>>

\* PostExecute: resources are released and the final state recorded.
PostExecute(t) ==
    /\ task[t].state = "Executing"
    /\ token' = Released(t)
    /\ task' = [task EXCEPT ![t].state = "Executed"]
    /\ UNCHANGED <<lifeVars, tsoVars>>

\* A task fails from a non-terminal state.
Fail(t) ==
    /\ task[t].state \in {"Created", "PreExecuted", "Executing"}
    /\ token' = Released(t)
    /\ task' = [task EXCEPT ![t].state = "Failed"]
    /\ UNCHANGED <<lifeVars, tsoVars>>

SchedNext ==
    \E t \in Tasks :
        \/ Submit(t)
        \/ PreExecute(t)
        \/ Execute(t)
        \/ PostExecute(t)
        \/ Fail(t)

SchedSpec == Init /\ [][SchedNext]_vars

\* =================================================================== claims
EndpointAccepting == \E g \in Goroutines : srv[g] = "serving"
HungExists == \E g \in Goroutines : hung[g] > 0
InvokedBy(op) == {i \in 1..Len(invoked) : invoked[i].by = op}
AllStarted == masterConn /\ metaCacheWarmed /\ Components \subseteq compStarted

\* C1: when connectMaster fails, Start returns that error and this Start has
\* performed none of the later steps: no step is recorded, no goroutine is
\* launched for this call, and on a first Start the cache is not warmed, no
\* component is started, no start callback has run and the WaitGroup is
\* untouched.
C1_ConnectFailureStopsStart ==
    err =>
        /\ result["Start"] = "err"
        /\ startTrace = <<>>
        /\ launched < starts
        /\ starts = 1 =>
              /\ ~masterConn
              /\ ~metaCacheWarmed
              /\ compStarted = {}
              /\ InvokedBy("Start") = {}
              /\ wg = 0
              /\ \A g \in Goroutines : gpc[g] = "unlaunched"

C1_Witness == err /\ result["Start"] = "err" /\ starts = 1

\* C2: once the grpcLoop goroutine exists (so at any moment its endpoint can
\* accept a request), the authority connection is established, the metadata
\* cache is warmed and both streams, the scheduler and the three allocators
\* have been started.
C2_EndpointOpenedLast ==
    \A g \in Goroutines : gpc[g] # "unlaunched" => AllStarted

C2_Witness == EndpointAccepting /\ AllStarted

\* C3: startup order: authority connection, then cache warm-up, then both
\* message streams, then the scheduler, then the allocators.
C3_StartupOrder ==
    /\ metaCacheWarmed => masterConn
    /\ compStarted # {} => metaCacheWarmed
    /\ "sched" \in compStarted => Streams \subseteq compStarted
    /\ compStarted \cap Allocators # {} => "sched" \in compStarted

C3_Witness == Allocators \subseteq compStarted /\ result["Start"] = "running"

\* C4: there is no state in which the shared context is cancelled while the
\* endpoint still accepts new requests.
C4_StopAcceptingBeforeCancel == ~(ctxCancelled /\ EndpointAccepting)

\* C5: in Close, the three allocators are closed before the scheduler, and
\* the scheduler before either message stream.
C5_ShutdownOrder ==
    /\ "sched" \in compClosed => Allocators \subseteq compClosed
    /\ compClosed \cap Streams # {} => "sched" \in compClosed

C5_Witness == Streams \subseteq compClosed /\ result["Close"] = "running"

\* The statement of startProxy that starts a lifecycle component.
StartStepOf(c) ==
    IF c = "masterConn" THEN "connectMaster"
    ELSE IF c = "grpcServer" THEN "grpcLoop" ELSE c

LifecycleComponents == {"masterConn", "grpcServer"} \cup Components
StartedAt(c) == Pos(startTrace, StartStepOf(c))
ClosedAt(c) == Pos(closeTrace, c)

\* C6: shutdown is the exact reverse of startup: after one successful Start
\* whose endpoint Close has stopped, every component Start started has been
\* closed by Close, and of two components the one started earlier is closed
\* later.
C6_ExactReverse ==
    (starts = 1 /\ result["Start"] = "ok" /\ result["Close"] = "ok"
        /\ gpc[1] = "done") =>
        /\ \A x \in LifecycleComponents : StartedAt(x) > 0 => ClosedAt(x) > 0
        /\ \A x, y \in LifecycleComponents :
              (StartedAt(x) > 0 /\ StartedAt(x) < StartedAt(y)) =>
                  ClosedAt(y) < ClosedAt(x)

\* C7: a Close that has been entered eventually returns, provided no request
\* hangs and no fatal listener error ends the process.
C7_CloseReturns ==
    (callerOp = "Close") ~> (result["Close"] = "ok" \/ HungExists \/ ~alive)

\* C8: whenever the endpoint accepts client requests, the scheduler, the
\* allocators and both streams have been started and none has been closed.
C8_AcceptingImpliesDependenciesLive ==
    EndpointAccepting =>
        /\ Components \subseteq compStarted
        /\ compClosed = {}

\* C9: a Close blocked in GracefulStop on a request that never terminates
\* still goes on to close the allocators, the scheduler and the streams.
C9_BoundedGracePeriod ==
    (callerOp = "Close" /\ stopping # 0 /\ hung[stopping] > 0)
        ~> (Components \subseteq compClosed \/ ~alive)

\* The close callbacks Close has invoked so far, in order.
CloseInvoked ==
    LET n == Cardinality(InvokedBy("Close")) IN
    [i \in 1..n |-> closeCallbacks[i]]

\* C10, as claimed: once Close has cancelled the context, stopped the
\* endpoint or closed a component, every registered close callback has
\* already been invoked.
C10_CloseCallbacksFirst ==
    (result["Start"] = "ok" /\ result["Close"] # "none"
        /\ (ctxCancelled \/ closeTrace # <<>>)) =>
        Cardinality(InvokedBy("Close")) = Len(closeCallbacks)

\* C10, amended: a close callback is invoked only at the end of Close, after
\* stopProxyLoop has returned: the context is cancelled, the allocators, the
\* scheduler and the streams are closed and the WaitGroup wait has returned.
C10_CloseCallbacksLast ==
    InvokedBy("Close") # {} =>
        /\ ctxCancelled
        /\ Components \subseteq compClosed
        /\ (Range(stopProxyLoopSteps) \ {"grpcServer"}) \subseteq Range(closeTrace)

C10_Witness == InvokedBy("Close") # {} /\ Len(closeCallbacks) = 2

\* The statements of startProxy that come before the start callbacks.
StartupBeforeCallbacks ==
    {"connectMaster", "initGlobalMetaCache"} \cup Components

\* C11, as claimed: a start callback has run only if the Start that ran it
\* has already launched the request-accepting endpoint goroutine.
C11_StartCallbacksAfterEndpoint ==
    (callerOp = "Start" /\ cbIdx > 0) => "grpcLoop" \in Range(startTrace)

\* C11, amended: a start callback runs only after the authority connection,
\* the cache warm-up and the start of both streams, the scheduler and the
\* three allocators, and before the WaitGroup is incremented and the
\* endpoint goroutine is launched.
C11_StartCallbacksBeforeEndpoint ==
    (callerOp = "Start" /\ cbIdx > 0) =>
        /\ StartupBeforeCallbacks \subseteq Range(startTrace)
        /\ AllStarted
        /\ "wgAdd" \notin Range(startTrace)
        /\ "grpcLoop" \notin Range(startTrace)
        /\ launched < starts

C11_Witness == callerOp = "Start" /\ cbIdx = 2 /\ starts = 1

\* C12: a failed bind of the endpoint's listener, or a Serve that returns an
\* error, terminates the process: no goroutine stands at a failed Listen or
\* Serve while the process, with its components started, keeps running.
C12_EndpointFailureIsFatal ==
    \A g \in Goroutines :
        gpc[g] \in {"listenFailed", "serveFailed"} => ~alive

C12_Witness ==
    \E g \in Goroutines : gpc[g] = "listenFailed" /\ AllStarted /\ port = 0

\* C13: the timestamps issued by the TimestampAllocator are strictly
\* increasing in issuance order, across refills, other clients' leases and
\* restarts; so no value is issued twice.
C13_TimestampsStrictlyIncreasing ==
    \A i, j \in 1..Len(issued) : i < j => issued[i] < issued[j]

C13_Witness ==
    /\ Len(issued) >= 3
    /\ \E i \in 1..(Len(issued) - 1) : issued[i + 1] > issued[i] + 1

InExecute(t, kinds, c) ==
    /\ task[t].state = "Executing"
    /\ task[t].kind \in kinds
    /\ task[t].coll = c

\* C14: a DDL task and a Manipulation or Query task on the same collection
\* are never in Execute at the same time.
C14_DDLExclusion ==
    \A c \in Collections : \A t, u \in Tasks :
        ~(InExecute(t, {"DDL"}, c) /\ InExecute(u, {"Manipulation", "Query"}, c))

\* A DDL task on X and a Manipulation task on Y are in Execute together.
C14_Witness ==
    \E t, u \in Tasks :
        InExecute(t, {"DDL"}, "X") /\ InExecute(u, {"Manipulation"}, "Y")

\* C15: every component and the metadata cache hold the one context
\* p.proxyLoopCtx, and a component is closed only when that context has
\* already been cancelled.
C15_SingleSharedSignal ==
    /\ \A c \in CtxHolders : ctxOf[c] \in {"none", "proxyLoopCtx"}
    /\ proxy = "created" => \A c \in Components : ctxOf[c] = "proxyLoopCtx"
    /\ metaCacheWarmed => ctxOf["metaCache"] = "proxyLoopCtx"
    /\ compClosed # {} => ctxCancelled

C15_Witness ==
    /\ compClosed # {}
    /\ ctxCancelled
    /\ \A c \in CtxHolders : ctxOf[c] = "proxyLoopCtx"

\* The callbacks method op has invoked, in the order of their invocation.
InvokedCallbacks(op) ==
    LET ByOp(e) == e.by = op
        sel == SelectSeq(invoked, ByOp)
    IN  [i \in 1..Len(sel) |-> sel[i].cb]

\* A list of callbacks in the order of their registration.
InRegistrationOrder(list) ==
    \A i, j \in 1..Len(list) : i < j => list[i] < list[j]

\* C16: when the first successful Start returns it has invoked every
\* registered start callback exactly once, in registration order; when Close
\* returns it has invoked every registered close callback exactly once, in
\* registration order; Start invokes only start callbacks and Close only
\* close callbacks.
C16_CallbacksOnceInOrder ==
    [][ /\ \A i \in 1..Len(invoked') :
              IF invoked'[i].by = "Start"
              THEN /\ invoked'[i].cb \in Range(startCallbacks')
                   /\ invoked'[i].cb \notin Range(closeCallbacks')
              ELSE /\ invoked'[i].cb \in Range(closeCallbacks')
                   /\ invoked'[i].cb \notin Range(startCallbacks')
        /\ (callerOp = "Start" /\ callerOp' = "idle"
              /\ result'["Start"] = "ok" /\ launched' = 1) =>
              /\ InvokedCallbacks("Start")' = startCallbacks'
              /\ InRegistrationOrder(startCallbacks')
        /\ (callerOp = "Close" /\ callerOp' = "idle") =>
              /\ InvokedCallbacks("Close")' = closeCallbacks'
              /\ InRegistrationOrder(closeCallbacks')
      ]_vars

C16_Witness ==
    /\ launched = 1 /\ result["Start"] = "ok" /\ result["Close"] = "ok"
    /\ Len(invoked) = MaxCallbacks
    /\ Len(invoked) = Registered

\* C17: CreateProxy ends by returning: either a Proxy with every component
\* set, or an error; no construction failure terminates the process.
C17_ConstructionFailuresReturned ==
    /\ proxy = "created" => \A c \in Components : ctxOf[c] # "none"
    /\ proxy = "none" => alive

\* C18: after a Close that shut a started Proxy down, a later Start starts
\* no message stream, scheduler or allocator and launches no endpoint.
C18_NoRestartAfterClose ==
    (result["Close"] = "ok" /\ gpc[1] = "done" /\ callerOp = "Start") =>
        Range(startTrace) \cap (Components \cup {"grpcLoop"}) = {}

====
